---- MODULE Spec2Model ----
(***************************************************************************)
(* Model of src/app.py: a Flask service that reprojects a zipped shapefile *)
(* and hands the result out through a single-use download link.            *)
(*                                                                         *)
(* State: the scratch directories on disk, the process-wide registry       *)
(* temp_file_store, and the download requests in flight.  An upload        *)
(* (reproject_api) touches shared state only through the single dict       *)
(* assignment of line 117; every directory it makes comes from mkdtemp and *)
(* is private to it, so the handler is one action.  A download is served   *)
(* by a thread of the WSGI server and is split at the points where it      *)
(* reads or writes shared state: lookup, send_file, response close, each   *)
(* rmtree of the cleanup loop, and the final del.                          *)
(*                                                                         *)
(* up is the upload request handled by the step that led to the state,     *)
(* with what it was answered; it is NoUpload after any other step.         *)
(*                                                                         *)
(* A directory is a number handed out by mkdtemp.  A file lives in one     *)
(* directory and is removed only by rmtree of that directory, so a path    *)
(* <<dir, name>> exists exactly when dir is on disk.  rmtree of one        *)
(* directory is taken as atomic.                                           *)
(***************************************************************************)
EXTENDS Integers, Sequences, FiniteSets, TLC

VARIABLES
    disk,             \* the scratch directories that exist (mkdtemp, rmtree)
    nextDir,          \* the directory the next mkdtemp returns
    temp_file_store,  \* line 81: file_id -> [path, temp_dirs]
    up,               \* the upload request just handled and its response
    nUp,              \* the number of upload requests handled
    issued,           \* the file_id of each download_link handed out, in order
    dl,               \* the download requests, in order of arrival
    rmCount,          \* per directory ever made, the rmtree calls on it
    consumed,         \* the identifiers whose cleanup has ended since they
                      \* were last registered
    fsCaseSensitive   \* whether os.path.exists tells ".SHP" from ".shp"

vars == <<disk, nextDir, temp_file_store, up, nUp, issued, dl, rmCount,
          consumed, fsCaseSensitive>>

\* Bounds of the model: upload requests and download requests handled.
MaxUploads == 2
MaxDownloads == 2

----------------------------------------------------------------------------
\* Strings.  A file name is a sequence of characters, a CRS identifier and a
\* file identifier are sequences of tokens, so that lower(), endswith(),
\* strip() and replace() are computed and not assumed.

Lower(c) ==
    CASE c = "A" -> "a"
      [] c = "Z" -> "z"
      [] c = "I" -> "i"
      [] c = "P" -> "p"
      [] OTHER -> c

LowerStr(s) == [k \in 1..Len(s) |-> Lower(s[k])]

EndsWith(s, suf) ==
    /\ Len(s) >= Len(suf)
    /\ SubSeq(s, Len(s) - Len(suf) + 1, Len(s)) = suf

DotZip == <<".", "z", "i", "p">>

RECURSIVE StripLeft(_)
StripLeft(s) ==
    IF s # <<>> /\ Head(s) \in {".", "_"} THEN StripLeft(Tail(s)) ELSE s

RECURSIVE StripRight(_)
StripRight(s) ==
    IF s # <<>> /\ s[Len(s)] \in {".", "_"}
    THEN StripRight(SubSeq(s, 1, Len(s) - 1))
    ELSE s

\* werkzeug's secure_filename on the names of the model: leading and trailing
\* dots and underscores are stripped.
secure_filename(s) == StripRight(StripLeft(s))

RECURSIVE RemoveColons(_)
RemoveColons(s) ==
    IF s = <<>> THEN <<>>
    ELSE IF Head(s) = ":" THEN RemoveColons(Tail(s))
    ELSE <<Head(s)>> \o RemoveColons(Tail(s))

\* f"reprojected_{target_crs.replace(':', '')}.zip"
OutputZipName(target_crs) ==
    <<"reprojected_">> \o RemoveColons(target_crs) \o <<".zip">>

\* os.path.join(dir, name) and os.path.basename(path)
Join(dir, name) == <<dir, name>>
Basename(path) == path[2]
DirOf(path) == path[1]

----------------------------------------------------------------------------
\* Request inputs.

Epsg4326 == <<"EPSG", ":", "4326">>
Epsg3857 == <<"EPSG", ":", "3857">>
NoColon == <<"EPSG", "4326">>

\* CRS(target_crs) of pyproj raises on what it cannot parse.
ParsesAsCRS(s) == s \in {Epsg4326, Epsg3857}

CrsInputs == {<<>>, NoColon, Epsg4326, Epsg3857}

Filenames ==
    { <<>>,
      <<"a", ".", "t", "x", "t">>,
      <<"A", ".", "Z", "I", "P">>,
      <<".", "z", "i", "p">> }

\* A member of an extracted archive, top level: base name and extension.
Member(b, e) == [base |-> b, ext |-> e]

LowerExt(e) == IF e = ".SHP" THEN ".shp" ELSE e

Complete(b) == {Member(b, ".shp"), Member(b, ".shx"), Member(b, ".dbf"), Member(b, ".prj")}

\* The uploaded files of the model.  isZip: zipfile.is_zipfile accepts it;
\* extractOk: extractall succeeds; files: the top-level entries after
\* extraction; hasCRS: the layer read from it carries a CRS.
Archive(name) ==
    CASE name = "ok"      -> [isZip |-> TRUE,  extractOk |-> TRUE,  hasCRS |-> TRUE,
                              files |-> Complete("a")]
      [] name = "notzip"  -> [isZip |-> FALSE, extractOk |-> FALSE, hasCRS |-> FALSE,
                              files |-> {}]
      [] name = "corrupt" -> [isZip |-> TRUE,  extractOk |-> FALSE, hasCRS |-> FALSE,
                              files |-> {}]
      [] name = "noshp"   -> [isZip |-> TRUE,  extractOk |-> TRUE,  hasCRS |-> FALSE,
                              files |-> {Member("a", ".dbf"), Member("a", ".txt")}]
      [] name = "partial" -> [isZip |-> TRUE,  extractOk |-> TRUE,  hasCRS |-> FALSE,
                              files |-> {Member("a", ".shp"), Member("a", ".dbf")}]
      [] name = "upper"   -> [isZip |-> TRUE,  extractOk |-> TRUE,  hasCRS |-> TRUE,
                              files |-> {Member("a", ".SHP"), Member("a", ".shx"),
                                         Member("a", ".dbf"), Member("a", ".prj")}]
      [] name = "two"     -> [isZip |-> TRUE,  extractOk |-> TRUE,  hasCRS |-> TRUE,
                              files |-> Complete("a") \cup {Member("b", ".shp")}]
      [] name = "nocrs"   -> [isZip |-> TRUE,  extractOk |-> TRUE,  hasCRS |-> FALSE,
                              files |-> Complete("a")]

ArchiveNames == {"ok", "notzip", "corrupt", "noshp", "partial", "upper", "two", "nocrs"}

\* A call into the geospatial library or zipfile that fails, and the class of
\* the exception it raises: a subclass of ValueError (the driver cannot open
\* the layer) or any other exception.
Fault(at, cls) == [at |-> at, cls |-> cls]
NoFault == Fault("none", "none")
Faults ==
    {NoFault, Fault("read_file", "ValueError"), Fault("to_crs", "Exception"),
     Fault("to_file", "Exception"), Fault("zip", "Exception")}

----------------------------------------------------------------------------
\* check_shapefile_completeness

NoMember == [base |-> "", ext |-> ""]
NoPath == <<0, <<>>>>
required_exts == <<".shp", ".shx", ".dbf", ".prj">>

\* os.listdir(temp_dir) filtered by f.lower().endswith(".shp")
ShpFiles(files) == {f \in files : LowerExt(f.ext) = ".shp"}

\* shp_files[0]: the listing order of a directory is arbitrary.
ShpChoices(arch) ==
    IF arch.isZip /\ arch.extractOk /\ ShpFiles(arch.files) # {}
    THEN ShpFiles(arch.files)
    ELSE {NoMember}

\* os.path.exists(base_name + ext) in the extraction directory.
SidecarExists(files, base, ext, cs) ==
    IF cs THEN Member(base, ext) \in files
    ELSE \E f \in files : f.base = base /\ LowerExt(f.ext) = LowerExt(ext)

MissingExts(files, base, cs) ==
    SelectSeq(required_exts, LAMBDA e : ~SidecarExists(files, base, e, cs))

\* Mutant of Raised: the validator raises without removing its directory.
RaisedLeavingDir(kind, cls, made, rm) ==
    [err |-> kind, cls |-> cls, missing |-> <<>>, shp |-> NoMember,
     shp_path |-> Join(0, NoMember), temp_dir |-> 0, made |-> made, rm |-> <<>>]

Raised(kind, cls, made, rm) ==
    [err |-> kind, cls |-> cls, missing |-> <<>>, shp |-> NoMember,
     shp_path |-> Join(0, NoMember), temp_dir |-> 0, made |-> made, rm |-> rm]

\* zip_path: the path of the archive; arch: its content; shp: the entry the
\* directory listing puts first; cs: the file system compares names case
\* sensitively; d: the directory the next mkdtemp returns.  The result names
\* the error raised ("none" on return), the directories made and the rmtree
\* calls, in order.
check_shapefile_completeness(zip_path, arch, shp, cs, d) ==
    IF ~EndsWith(LowerStr(Basename(zip_path)), DotZip)
    THEN Raised("InvalidInput", "ValueError", {}, <<>>)
    ELSE IF ~arch.isZip
    THEN Raised("InvalidInput", "ValueError", {}, <<>>)
    ELSE IF ~arch.extractOk
    THEN Raised("Unexpected", "Exception", {d}, <<d>>)
    ELSE IF ShpFiles(arch.files) = {}
    THEN Raised("MissingShapefile", "FileNotFoundError", {d}, <<d>>)
    ELSE IF MissingExts(arch.files, shp.base, cs) # <<>>
    THEN [Raised("IncompleteShapefile", "FileNotFoundError", {d}, <<d>>)
            EXCEPT !.missing = MissingExts(arch.files, shp.base, cs), !.shp = shp]
    ELSE [err |-> "none", cls |-> "none", missing |-> <<>>, shp |-> shp,
          shp_path |-> Join(d, shp), temp_dir |-> d, made |-> {d}, rm |-> <<>>]

----------------------------------------------------------------------------
\* reproject_shapefile

\* Mutant of EngineRaised: the handler of the engine removes nothing.
EngineRaisedNoCleanup(v, kind, cls, fault, made) ==
    [err |-> kind, cls |-> cls, missing |-> v.missing, shp |-> v.shp,
     fault |-> fault, output_zip_path |-> NoPath, temp_dir |-> 0,
     temp_output_dir |-> 0, made |-> made, rm |-> v.rm]

EngineRaised(v, kind, cls, fault, made) ==
    [err |-> kind, cls |-> cls, missing |-> v.missing, shp |-> v.shp,
     fault |-> fault, output_zip_path |-> NoPath, temp_dir |-> 0,
     temp_output_dir |-> 0, made |-> made,
     \* except: if temp_dir and os.path.exists(temp_dir): shutil.rmtree(temp_dir)
     rm |-> v.rm \o (IF v.temp_dir # 0 THEN <<v.temp_dir>> ELSE <<>>)]

\* d1, d2: the directories the next two mkdtemp calls return.
reproject_shapefile(zip_path, target_crs, arch, shp, cs, fault, d1, d2) ==
    LET v == check_shapefile_completeness(zip_path, arch, shp, cs, d1) IN
    IF v.err # "none"
    THEN EngineRaised(v, v.err, v.cls, NoFault, v.made)
    ELSE IF fault.at = "read_file"
    THEN EngineRaised(v, "Unexpected", fault.cls, fault, v.made)
    ELSE IF ~arch.hasCRS
    THEN EngineRaised(v, "MissingSourceCRS", "ValueError", NoFault, v.made)
    ELSE IF fault.at \in {"to_crs", "to_file"}
    THEN EngineRaised(v, "Unexpected", fault.cls, fault, v.made)
    ELSE IF fault.at = "zip"
    THEN EngineRaised(v, "Unexpected", fault.cls, fault, v.made \cup {d2})
    ELSE [err |-> "none", cls |-> "none", missing |-> <<>>, shp |-> v.shp,
          fault |-> NoFault,
          output_zip_path |-> Join(d2, OutputZipName(target_crs)),
          temp_dir |-> v.temp_dir, temp_output_dir |-> d2,
          made |-> v.made \cup {d2}, rm |-> <<>>]

----------------------------------------------------------------------------
\* The file system and the registry.

Exists(path) == DirOf(path) \in disk

\* shutil.rmtree(d) on the disk dk: the directory is gone afterwards; the
\* call raises when it was not there.
RmtreeDisk(dk, d) == dk \ {d}

RECURSIVE RmtreeAll(_, _)
RmtreeAll(dk, ds) ==
    IF ds = <<>> THEN dk ELSE RmtreeAll(RmtreeDisk(dk, Head(ds)), Tail(ds))

\* rmCount counts the rmtree calls made on each directory ever created.
RECURSIVE CountAll(_, _)
CountAll(rc, ds) ==
    IF ds = <<>> THEN rc
    ELSE CountAll([rc EXCEPT ![Head(ds)] = @ + 1], Tail(ds))

Fresh(ds) == [d \in ds |-> 0]

Range(f) == {f[x] : x \in DOMAIN f}

\* Mutant of Register: an identifier that is registered keeps its record.
RegisterKeepFirst(store, file_id, record) ==
    [x \in DOMAIN store \cup {file_id} |->
        IF x \in DOMAIN store THEN store[x] ELSE record]

\* Mutant of Register: the record does not list the upload directory.
RegisterWithoutUploadDir(store, file_id, record) ==
    [x \in DOMAIN store \cup {file_id} |->
        IF x = file_id THEN [record EXCEPT !.temp_dirs = Tail(@)]
        ELSE store[x]]

\* temp_file_store[file_id] = record
Register(store, file_id, record) ==
    [x \in DOMAIN store \cup {file_id} |->
        IF x = file_id THEN record ELSE store[x]]

\* Mutant of Delete: the entry is left in the registry.
DeleteNothing(store, file_id) == store

\* del temp_file_store[file_id]
Delete(store, file_id) == [x \in DOMAIN store \ {file_id} |-> store[x]]

----------------------------------------------------------------------------
\* reproject_api: POST /reproject_shapefile

NoUpload ==
    [hasFile |-> FALSE, filename |-> <<>>, crsGiven |-> FALSE,
     target_crs |-> <<>>, arch |-> "none", shp |-> NoMember, fault |-> NoFault,
     status |-> 0, reason |-> "none", err |-> "none", cls |-> "none",
     missing |-> <<>>, body |-> {}, uDir |-> 0, iDir |-> 0, oDir |-> 0,
     file_id |-> <<>>]

\* Mutant of PreCheck: target_crs is looked at before the file name.
PreCheckCrsFirst(hasFile, filename, crsGiven, target_crs) ==
    IF ~hasFile THEN "NoFilePart"
    ELSE IF ~crsGiven \/ target_crs = <<>> THEN "MissingCRS"
    ELSE IF ~ParsesAsCRS(target_crs) THEN "InvalidCRS"
    ELSE IF filename = <<>> \/ ~EndsWith(LowerStr(filename), DotZip)
    THEN "BadFilename"
    ELSE "none"

\* The first pre-check that fails, in the order of the handler; "none" when
\* the request passes them all.
PreCheck(hasFile, filename, crsGiven, target_crs) ==
    IF ~hasFile THEN "NoFilePart"
    ELSE IF filename = <<>> \/ ~EndsWith(LowerStr(filename), DotZip)
    THEN "BadFilename"
    ELSE IF ~crsGiven \/ target_crs = <<>> THEN "MissingCRS"
    ELSE IF ~ParsesAsCRS(target_crs) THEN "InvalidCRS"
    ELSE "none"

\* except (ValueError, FileNotFoundError) -> 400; except Exception -> 500
StatusOf(cls) ==
    IF cls = "none" THEN 200
    ELSE IF cls \in {"ValueError", "FileNotFoundError"} THEN 400
    ELSE 500

reproject_api(hasFile, filename, crsGiven, target_crs, archName, shp, fault) ==
    LET reason == PreCheck(hasFile, filename, crsGiven, target_crs)
        u == nextDir
        path == Join(u, secure_filename(filename))
        r == reproject_shapefile(path, target_crs, Archive(archName), shp,
                                 fsCaseSensitive, fault, u + 1, u + 2)
        made == {u} \cup r.made
        file_id == Basename(r.output_zip_path)
        record == [path |-> r.output_zip_path,
                   temp_dirs |-> <<u, r.temp_dir, r.temp_output_dir>>]
        rms == IF r.err = "none" THEN r.rm ELSE r.rm \o <<u>>
    IN
    /\ nUp < MaxUploads
    /\ nUp' = nUp + 1
    /\ UNCHANGED <<dl, fsCaseSensitive>>
    /\ IF reason # "none"
       THEN /\ up' = [NoUpload EXCEPT !.hasFile = hasFile,
                         !.filename = filename, !.crsGiven = crsGiven,
                         !.target_crs = target_crs, !.status = 400,
                         !.reason = reason, !.body = {"error"}]
            /\ UNCHANGED <<disk, nextDir, temp_file_store, issued, rmCount,
                           consumed>>
       ELSE /\ up' = [hasFile |-> hasFile, filename |-> filename,
                      crsGiven |-> crsGiven, target_crs |-> target_crs,
                      arch |-> archName, shp |-> r.shp, fault |-> r.fault,
                      status |-> StatusOf(r.cls), reason |-> "none",
                      err |-> r.err, cls |-> r.cls, missing |-> r.missing,
                      body |-> IF r.err = "none"
                               THEN {"message", "download_link"}
                               ELSE {"error"},
                      uDir |-> u,
                      iDir |-> IF u + 1 \in made THEN u + 1 ELSE 0,
                      oDir |-> IF u + 2 \in made THEN u + 2 ELSE 0,
                      file_id |-> IF r.err = "none" THEN file_id ELSE <<>>]
            /\ nextDir' = nextDir + Cardinality(made)
            /\ disk' = RmtreeAll(disk \cup made, rms)
            /\ rmCount' = CountAll(Fresh(made) @@ rmCount, rms)
            /\ IF r.err = "none"
               THEN /\ temp_file_store' = Register(temp_file_store, file_id, record)
                    /\ issued' = Append(issued, file_id)
                    /\ consumed' = consumed \ {file_id}
               ELSE UNCHANGED <<temp_file_store, issued, consumed>>

\* A library call can fail only where the request reaches it.
FaultChoices(filename, arch, shp) ==
    IF check_shapefile_completeness(Join(0, secure_filename(filename)), arch,
                                    shp, fsCaseSensitive, 0).err = "none"
    THEN Faults
    ELSE {NoFault}

Upload ==
    \E hasFile \in BOOLEAN, crsGiven \in BOOLEAN :
      \E filename \in IF hasFile THEN Filenames ELSE {<<>>},
         target_crs \in IF crsGiven THEN CrsInputs ELSE {<<>>} :
        IF PreCheck(hasFile, filename, crsGiven, target_crs) # "none"
        THEN reproject_api(hasFile, filename, crsGiven, target_crs,
                           "none", NoMember, NoFault)
        ELSE \E archName \in ArchiveNames :
               \E shp \in ShpChoices(Archive(archName)) :
                 \E fault \in FaultChoices(filename, Archive(archName), shp) :
                   reproject_api(hasFile, filename, crsGiven, target_crs,
                                 archName, shp, fault)

----------------------------------------------------------------------------
\* download_file: GET /download_file/<file_id>

NoData == [path |-> NoPath, temp_dirs |-> <<>>]

DownloadIds == {OutputZipName(Epsg4326), OutputZipName(Epsg3857)}

InFlight(r) == dl[r].pc # "done"

\* The uploads whose link their uploader has not fetched yet.
Unfetched(file_id) ==
    {k \in DOMAIN issued :
        issued[k] = file_id /\ \A r \in DOMAIN dl : dl[r].link # k}

\* temp_file_store.get(file_id)
Get(store, file_id) ==
    IF file_id \in DOMAIN store THEN store[file_id] ELSE NoData

\* Mutant of Found: the archive is not looked for on disk.
FoundInRegistry(store, dk, file_id) == Get(store, file_id) # NoData

\* Lines 138-140: file_data = temp_file_store.get(file_id); 404 when there is
\* no record or its archive is not on disk.
Found(store, dk, file_id) ==
    /\ Get(store, file_id) # NoData
    /\ DirOf(Get(store, file_id).path) \in dk

\* link: the upload whose uploader fetches its link for the first time with
\* this request, 0 for a request of anyone else.
DownloadLookup(file_id, link) ==
    LET found == Found(temp_file_store, disk, file_id)
        others == {r \in DOMAIN dl : InFlight(r) /\ dl[r].file_id = file_id}
        new == [file_id |-> file_id, link |-> link,
                pc |-> IF found THEN "found" ELSE "done",
                status |-> IF found THEN 0 ELSE 404,
                file_data |-> IF found THEN Get(temp_file_store, file_id) ELSE NoData,
                i |-> 0, logged |-> FALSE, escaped |-> FALSE,
                registered |-> file_id \in DOMAIN temp_file_store,
                afterConsume |-> file_id \in consumed,
                alone |-> others = {}]
    IN
    /\ Len(dl) < MaxDownloads
    /\ link = 0 \/ link \in Unfetched(file_id)
    /\ dl' = Append([r \in DOMAIN dl |->
                       IF r \in others THEN [dl[r] EXCEPT !.alone = FALSE]
                       ELSE dl[r]], new)
    /\ up' = NoUpload
    /\ UNCHANGED <<disk, nextDir, temp_file_store, nUp, issued, rmCount,
                   consumed, fsCaseSensitive>>

\* Lines 142-143: send_file opens the archive; it raises, and the request
\* ends with 500, when the file has gone since the lookup.
DownloadSend(r) ==
    /\ dl[r].pc = "found"
    /\ dl' = [dl EXCEPT ![r] =
                IF Exists(dl[r].file_data.path)
                THEN [@ EXCEPT !.pc = "streaming", !.status = 200]
                ELSE [@ EXCEPT !.pc = "done", !.status = 500,
                               !.file_data = NoData]]
    /\ up' = NoUpload
    /\ UNCHANGED <<disk, nextDir, temp_file_store, nUp, issued, rmCount,
                   consumed, fsCaseSensitive>>

\* The response has been sent in full and is closed: call_on_close runs
\* cleanup_files.
DownloadClose(r) ==
    /\ dl[r].pc = "streaming"
    /\ dl' = [dl EXCEPT ![r] = [@ EXCEPT !.pc = "cleanup", !.i = 1]]
    /\ up' = NoUpload
    /\ UNCHANGED <<disk, nextDir, temp_file_store, nUp, issued, rmCount,
                   consumed, fsCaseSensitive>>

\* One pass of "for d in file_data['temp_dirs']: shutil.rmtree(d)".  The try
\* encloses the loop: the first rmtree that raises ends it, and the except
\* clause prints the error.
CleanupRmtree(r) ==
    LET d == dl[r].file_data.temp_dirs[dl[r].i] IN
    /\ dl[r].pc = "cleanup"
    /\ rmCount' = [rmCount EXCEPT ![d] = @ + 1]
    /\ disk' = RmtreeDisk(disk, d)
    /\ dl' = [dl EXCEPT ![r] =
                IF d \notin disk
                THEN [@ EXCEPT !.pc = "del", !.logged = TRUE]
                ELSE IF dl[r].i = Len(dl[r].file_data.temp_dirs)
                THEN [@ EXCEPT !.pc = "del"]
                ELSE [@ EXCEPT !.i = @ + 1]]
    /\ up' = NoUpload
    /\ UNCHANGED <<nextDir, temp_file_store, nUp, issued, consumed,
                   fsCaseSensitive>>

\* Line 152, after the try statement: del temp_file_store[file_id].  It
\* raises KeyError, out of the callback, when the key is not there.
CleanupDel(r) ==
    /\ dl[r].pc = "del"
    /\ temp_file_store' = Delete(temp_file_store, dl[r].file_id)
    /\ consumed' = consumed \cup {dl[r].file_id}
    /\ dl' = [dl EXCEPT ![r] =
                [@ EXCEPT !.pc = "done", !.file_data = NoData,
                          !.escaped = dl[r].file_id \notin DOMAIN temp_file_store]]
    /\ up' = NoUpload
    /\ UNCHANGED <<disk, nextDir, nUp, issued, rmCount, fsCaseSensitive>>

----------------------------------------------------------------------------
Init ==
    /\ disk = {}
    /\ nextDir = 1
    /\ temp_file_store = <<>>
    /\ up = NoUpload
    /\ nUp = 0
    /\ issued = <<>>
    /\ dl = <<>>
    /\ rmCount = <<>>
    /\ consumed = {}
    /\ fsCaseSensitive \in BOOLEAN

Download ==
    \E file_id \in DownloadIds, link \in 0..MaxUploads :
       DownloadLookup(file_id, link)

Send == \E r \in DOMAIN dl : DownloadSend(r)

Close == \E r \in DOMAIN dl : DownloadClose(r)

Rmtree == \E r \in DOMAIN dl : CleanupRmtree(r)

Del == \E r \in DOMAIN dl : CleanupDel(r)

Next == Upload \/ Download \/ Send \/ Close \/ Rmtree \/ Del

Spec == Init /\ [][Next]_vars

----------------------------------------------------------------------------
\* Vocabulary of the properties.

Created == DOMAIN rmCount

Done(r) == dl[r].pc = "done"

Quiescent == \A r \in DOMAIN dl : Done(r)

\* Every link handed out has been fetched by its uploader, and that
\* request has ended with its response closed.
AllLinksFetched ==
    \A k \in DOMAIN issued : \E r \in DOMAIN dl : dl[r].link = k /\ Done(r)

\* The request up was handled by the engine (it passed the pre-checks).
Engaged == up.status # 0 /\ up.reason = "none"

\* The upload just handled, in an action formula.
Handled == up'.status # 0

\* A complete shapefile with a source CRS: one .shp at top level with its
\* three sidecars beside it.
ValidArchive(a) ==
    /\ a.isZip /\ a.extractOk /\ a.hasCRS
    /\ Cardinality(ShpFiles(a.files)) = 1
    /\ \A f \in ShpFiles(a.files) : Complete(f.base) \subseteq a.files

\* C1: once every issued link has been fetched and every response is closed,
\* no scratch directory is left on disk, and at no time has rmtree been called
\* twice on one directory.
C1_EveryDirDeletedExactlyOnce ==
    /\ \A d \in Created : rmCount[d] <= 1
    /\ (Quiescent /\ AllLinksFetched) =>
          /\ disk = {}
          /\ \A d \in Created : rmCount[d] = 1

\* C2: a download of a registered identifier that no other download of the
\* identifier overlaps is answered 200; when its cleanup has ended the
\* identifier is no longer registered, and stays so until the next upload
\* registers it; a download that starts in that time is answered 404.
C2_SingleUse ==
    /\ \A r \in DOMAIN dl :
         (dl[r].registered /\ dl[r].alone /\ dl[r].status # 0)
            => dl[r].status = 200
    /\ \A id \in consumed : id \notin DOMAIN temp_file_store
    /\ \A r \in DOMAIN dl : dl[r].afterConsume => dl[r].status = 404

\* Two downloads of one identifier one after the other, the first 200 and
\* the second 404, with the record gone.
C2_Witness ==
    /\ Len(dl) = 2
    /\ dl[1].file_id = dl[2].file_id
    /\ dl[1].status = 200 /\ dl[1].alone /\ Done(1)
    /\ dl[2].afterConsume /\ dl[2].status = 404
    /\ dl[1].file_id \notin DOMAIN temp_file_store

\* C3: an upload of a valid archive with a parseable target CRS is answered
\* 200 with a download link, and the uploader's first fetch of the link is
\* answered 200 with the archive named after that upload's target CRS.
C3_UploaderGetsArchive ==
    /\ (Engaged /\ ValidArchive(Archive(up.arch)) /\ up.fault = NoFault
          /\ EndsWith(LowerStr(secure_filename(up.filename)), DotZip))
         => up.status = 200 /\ "download_link" \in up.body
    /\ \A r \in DOMAIN dl :
         (dl[r].link # 0 /\ dl[r].status # 0) =>
            /\ dl[r].status = 200
            /\ dl[r].file_id = issued[dl[r].link]

\* What the request carries: a file name ending in .zip, a target_crs value.
C4_HasZipName(u) == u.filename # <<>> /\ EndsWith(LowerStr(u.filename), DotZip)
C4_HasCrs(u) == u.crsGiven /\ u.target_crs # <<>>

\* C4: a request a pre-check rejects is answered 400 with no directory made
\* and the registry as it was; the checks apply in the order file part, file
\* name, target_crs present, target_crs parses, and a request is rejected
\* only by one of them.
C4_PreChecks ==
    [][Handled =>
         /\ (up'.reason = "NoFilePart") <=> ~up'.hasFile
         /\ (up'.reason = "BadFilename") <=> (up'.hasFile /\ ~C4_HasZipName(up'))
         /\ (up'.reason = "MissingCRS") <=>
               (up'.hasFile /\ C4_HasZipName(up') /\ ~C4_HasCrs(up'))
         /\ (up'.reason = "InvalidCRS") <=>
               (up'.hasFile /\ C4_HasZipName(up') /\ C4_HasCrs(up')
                  /\ ~ParsesAsCRS(up'.target_crs))
         /\ (up'.reason # "none") =>
               /\ up'.status = 400 /\ up'.body = {"error"}
               /\ disk' = disk /\ nextDir' = nextDir /\ rmCount' = rmCount
               /\ temp_file_store' = temp_file_store
               /\ up'.uDir = 0 /\ up'.iDir = 0 /\ up'.oDir = 0]_vars

\* A request with an unparsable target CRS rejected while a record is
\* registered and its directories are on disk.
C4_Witness ==
    /\ up.reason = "InvalidCRS" /\ up.status = 400 /\ up.hasFile
    /\ temp_file_store # <<>> /\ disk # {}

\* C5: an upload whose file is not a well-formed zip, or is a zip with no
\* .shp at top level, is answered 400, and every directory the request made
\* has been removed, by one rmtree each.
C5_BadArchiveRejectedClean ==
    (Engaged /\ (~Archive(up.arch).isZip \/ ~Archive(up.arch).extractOk
                   \/ ShpFiles(Archive(up.arch).files) = {}))
      => /\ up.status = 400
         /\ \A d \in {up.uDir, up.iDir, up.oDir} \ {0} :
              d \notin disk /\ rmCount[d] = 1

\* The sidecars that are not in the archive beside the chosen .shp.
C6_Absent(u) ==
    {e \in {".shx", ".dbf", ".prj"} :
        Member(u.shp.base, e) \notin Archive(u.arch).files}

\* C6: when the archive holds a .shp, validation fails exactly when one of
\* .shx, .dbf, .prj is absent beside the chosen .shp, and the message lists
\* exactly the absent extensions.
C6_MissingListed ==
    (Engaged /\ up.shp # NoMember) =>
       /\ (up.err = "IncompleteShapefile") <=> (C6_Absent(up) # {})
       /\ (up.err = "IncompleteShapefile") => Range(up.missing) = C6_Absent(up)

\* C7: an upload that fails in the engine is answered 400 for InvalidInput,
\* MissingShapefile, IncompleteShapefile and MissingSourceCRS and 500 for any
\* other failure; the upload directory is gone, the body has only the error
\* key and the registry is as it was.
C7_EngineFailure ==
    (Engaged /\ up.err # "none") =>
       /\ up.status = IF up.err \in {"InvalidInput", "MissingShapefile",
                                     "IncompleteShapefile", "MissingSourceCRS"}
                      THEN 400 ELSE 500
       /\ up.uDir \notin disk
       /\ up.body = {"error"}
       /\ \A id \in DOMAIN temp_file_store :
             up.uDir \notin Range(temp_file_store[id].temp_dirs)

\* C8: the cleanup of a download starts only when its response is closed, and
\* the archive a download is streaming is on disk until then.
C8_ArchiveKeptWhileStreaming ==
    \A r \in DOMAIN dl :
       /\ dl[r].i # 0 => dl[r].pc \in {"cleanup", "del", "done"}
       /\ dl[r].pc = "streaming" => Exists(dl[r].file_data.path)

\* C9: nothing raised in the cleanup callback leaves it.
C9_CleanupRaisesNothing ==
    \A r \in DOMAIN dl : ~dl[r].escaped

\* C10: a download of an identifier that is not registered, or whose archive
\* is not on disk, is answered 404 and ends there, with no cleanup to run,
\* the registry and the disk as they were.
C10_NotFoundFrame ==
    [][\A id \in DownloadIds :
         (/\ Len(dl') = Len(dl) + 1
          /\ dl'[Len(dl')].file_id = id
          /\ \/ id \notin DOMAIN temp_file_store
             \/ DirOf(temp_file_store[id].path) \notin disk)
         => /\ dl'[Len(dl')].status = 404
            /\ dl'[Len(dl')].pc = "done"
            /\ dl'[Len(dl')].file_data = NoData
            /\ temp_file_store' = temp_file_store
            /\ disk' = disk /\ rmCount' = rmCount]_vars

\* A download answered 404 for an identifier that is registered while its
\* archive is gone (another download's cleanup has removed it), with the
\* record still in the registry and directories still on disk.
C10_Witness ==
    \E r \in DOMAIN dl :
       /\ dl[r].status = 404 /\ dl[r].registered /\ Done(r)
       /\ dl[r].file_id \in DOMAIN temp_file_store
       /\ disk # {}

\* C11: a cleanup that ends has called rmtree on every directory of its
\* record, whether or not one of the calls raised; when it ends none of them
\* is on disk and its identifier is not in the registry.
C11_ConsumeDeletesAll ==
    [][\A r \in DOMAIN dl :
         (dl[r].pc = "del" /\ dl'[r].pc = "done") =>
            /\ dl[r].i = Len(dl[r].file_data.temp_dirs)
            /\ \A d \in Range(dl[r].file_data.temp_dirs) : d \notin disk'
            /\ dl[r].file_id \notin DOMAIN temp_file_store']_vars

\* What the validator did with the archive of the request u.
Validated(u) ==
    check_shapefile_completeness(Join(u.uDir, secure_filename(u.filename)),
                                 Archive(u.arch), u.shp, fsCaseSensitive,
                                 u.uDir + 1)

\* C12: when the validator fails, the engine raises the validator's error and
\* the extraction directory, if one was made, has had one rmtree call and is
\* gone; when a later step of the engine fails, the extraction directory is
\* gone when the error reaches the handler.
C12_EngineCleansInput ==
    (Engaged /\ up.err # "none") =>
       /\ Validated(up).err # "none" =>
             /\ up.err = Validated(up).err
             /\ up.cls = Validated(up).cls
             /\ up.iDir # 0 => (up.iDir \notin disk /\ rmCount[up.iDir] = 1)
       /\ Validated(up).err = "none" =>
             /\ up.err = "MissingSourceCRS" \/ up.fault # NoFault
             /\ up.iDir # 0 /\ up.iDir \notin disk
             /\ rmCount[up.iDir] >= 1

\* Packaging failed after the output directory was made: the extraction
\* directory is gone.
C12_Witness ==
    /\ Engaged /\ up.fault.at = "zip" /\ up.err = "Unexpected"
    /\ up.iDir # 0 /\ up.iDir \notin disk /\ up.oDir # 0

C14_RegisterOverwrites ==
    (Engaged /\ up.status = 200) =>
       /\ up.file_id = <<"reprojected_">>
                          \o SelectSeq(up.target_crs, LAMBDA c : c # ":")
                          \o <<".zip">>
       /\ up.file_id \in DOMAIN temp_file_store
       /\ temp_file_store[up.file_id] =
             [path |-> Join(up.oDir, up.file_id),
              temp_dirs |-> <<up.uDir, up.iDir, up.oDir>>]
       /\ \A id \in DOMAIN temp_file_store :
             (\E d \in Range(temp_file_store[id].temp_dirs) : d < up.uDir)
                => id # up.file_id

\* The second of two successful uploads with one target CRS: the registry
\* holds its record and the directories of the first are still on disk.
C14_Witness ==
    /\ Engaged /\ up.status = 200
    /\ Len(issued) = 2 /\ issued[1] = issued[2]
    /\ temp_file_store[up.file_id].temp_dirs = <<4, 5, 6>>
    /\ {1, 2, 3} \subseteq disk

\* C15: a cleanup takes out of the registry only the record its download
\* resolved: when the identifier has been registered again since the lookup,
\* the step that ends the cleanup leaves the new record in the registry, its
\* directories on disk, and the identifier is still found.
C15_CleanupSparesNewRecord ==
    [][\A r \in DOMAIN dl :
         (/\ dl[r].pc = "del" /\ dl'[r].pc = "done"
          /\ dl[r].file_id \in DOMAIN temp_file_store
          /\ temp_file_store[dl[r].file_id] # dl[r].file_data)
         => /\ dl[r].file_id \in DOMAIN temp_file_store'
            /\ temp_file_store'[dl[r].file_id] = temp_file_store[dl[r].file_id]
            /\ Range(temp_file_store[dl[r].file_id].temp_dirs) \subseteq disk'
            /\ Found(temp_file_store', disk', dl[r].file_id)]_vars

\* C16: when no download is between its lookup and the end of its cleanup,
\* every record of the registry lists three directories, no two the same,
\* all on disk, its archive is on disk in the third of them, and a lookup of
\* its identifier finds it.
C16_RecordsIntactAtRest ==
    Quiescent =>
       \A id \in DOMAIN temp_file_store :
          /\ Len(temp_file_store[id].temp_dirs) = 3
          /\ Cardinality(Range(temp_file_store[id].temp_dirs)) = 3
          /\ Range(temp_file_store[id].temp_dirs) \subseteq disk
          /\ Exists(temp_file_store[id].path)
          /\ DirOf(temp_file_store[id].path) = temp_file_store[id].temp_dirs[3]
          /\ Found(temp_file_store, disk, id)

\* At rest after a download that ran its cleanup and took its record out,
\* with the record of another upload in the registry.
C16_Witness ==
    /\ Quiescent /\ temp_file_store # <<>>
    /\ \E r \in DOMAIN dl :
          dl[r].status = 200 /\ dl[r].file_id \notin DOMAIN temp_file_store

====
